---------------------------- MODULE Spec2Model ----------------------------
(***************************************************************************)
(* Quote recommendation core of quote-service: the similarity scorer       *)
(* (SimilarityEngine), the Redis-backed similarity cache (CacheService),   *)
(* the persistence collaborator (QuoteRepository) and the request-level    *)
(* operations of QuoteService (getSimilarQuotes, likeQuote), with the      *)
(* repository's random selections (getWeightedRandom, getRandom).          *)
(*                                                                         *)
(* Strings are sequences of one-character strings, so that toLowerCase,    *)
(* trim, split, includes and the edit distance are computed and not        *)
(* assumed.  Scores are exact rationals <<numerator, denominator>>; the    *)
(* source computes them in IEEE doubles, which agree with the exact value  *)
(* except within rounding error of a comparison boundary.                  *)
(***************************************************************************)
EXTENDS Integers, Sequences, FiniteSets, TLC

-----------------------------------------------------------------------------
(* Bounds of the model *)

\* likeQuote stops being issued once a quote has this many likes
MaxLikes == 2

\* largest in-range limit a request of the model asks for
MaxAskLimit == 2

\* Math.random() returns one of 0/RandomGrain .. (RandomGrain-1)/RandomGrain
RandomGrain == 12

-----------------------------------------------------------------------------
(* Characters and strings *)

Uppers == <<"A","B","C","D","E","F","G","H","I","J","K","L","M",
            "N","O","P","Q","R","S","T","U","V","W","X","Y","Z">>
Lowers == <<"a","b","c","d","e","f","g","h","i","j","k","l","m",
            "n","o","p","q","r","s","t","u","v","w","x","y","z">>
Digits == {"0","1","2","3","4","5","6","7","8","9"}

Range(s) == { s[i] : i \in DOMAIN s }

\* the function f on 1..n as an explicit tuple
Tuple(f, n) == SubSeq(f, 1, n)

\* String.prototype.toLowerCase on one character
LowerChar(c) ==
  IF \E i \in DOMAIN Uppers : Uppers[i] = c
  THEN Lowers[CHOOSE i \in DOMAIN Uppers : Uppers[i] = c]
  ELSE c

\* String.prototype.toLowerCase
toLowerCase(s) == Tuple([i \in DOMAIN s |-> LowerChar(s[i])], Len(s))

\* \w of a JavaScript regular expression
IsWordChar(c) == c \in Range(Uppers) \cup Range(Lowers) \cup Digits \cup {"_"}

\* \s of a JavaScript regular expression
IsSpaceChar(c) == c \in {" ", "\t", "\n"}

\* String.prototype.replace(/[^\w\s]/g, '')
StripPunctuation(s) == SelectSeq(s, LAMBDA c : IsWordChar(c) \/ IsSpaceChar(c))

\* the elements of a set of indices, in increasing order
Ascending(I) ==
  Tuple([k \in 1..Cardinality(I) |->
           CHOOSE i \in I : Cardinality({ j \in I : j < i }) = k - 1],
        Cardinality(I))

\* positions where a maximal run of non-space characters starts
WordStarts(s) ==
  { i \in DOMAIN s : ~IsSpaceChar(s[i]) /\ (i = 1 \/ IsSpaceChar(s[i-1])) }

\* last position of the run of non-space characters that starts at i
WordEnd(s, i) ==
  CHOOSE j \in i..Len(s) :
    /\ \A k \in i..j : ~IsSpaceChar(s[k])
    /\ (j = Len(s) \/ IsSpaceChar(s[j+1]))

\* String.prototype.split(/\s+/): the words between runs of whitespace, with
\* an empty string before a leading run and after a trailing run
SplitWhitespace(s) ==
  (IF s = <<>> \/ IsSpaceChar(s[1]) THEN << <<>> >> ELSE <<>>)
  \o Tuple([k \in 1..Cardinality(WordStarts(s)) |->
              SubSeq(s, Ascending(WordStarts(s))[k],
                     WordEnd(s, Ascending(WordStarts(s))[k]))],
           Cardinality(WordStarts(s)))
  \o (IF s # <<>> /\ IsSpaceChar(s[Len(s)]) THEN << <<>> >> ELSE <<>>)

RECURSIVE TrimLeft(_)
TrimLeft(s) ==
  IF s # <<>> /\ IsSpaceChar(s[1]) THEN TrimLeft(Tail(s)) ELSE s

RECURSIVE TrimRight(_)
TrimRight(s) ==
  IF s # <<>> /\ IsSpaceChar(s[Len(s)])
  THEN TrimRight(SubSeq(s, 1, Len(s) - 1)) ELSE s

\* String.prototype.trim
trim(s) == TrimRight(TrimLeft(s))

\* String.prototype.includes
includes(s, sub) ==
  \E i \in 1..(Len(s) + 1) :
    /\ i + Len(sub) - 1 <= Len(s)
    /\ SubSeq(s, i, i + Len(sub) - 1) = sub

\* Array.prototype.includes
Member(x, seq) == \E i \in DOMAIN seq : seq[i] = x

\* filter((w, index, arr) => arr.indexOf(w) === index)
FirstOccurrences(seq) == { i \in DOMAIN seq : \A j \in 1..(i-1) : seq[j] # seq[i] }

Dedupe(seq) ==
  Tuple([k \in 1..Cardinality(FirstOccurrences(seq)) |->
           seq[Ascending(FirstOccurrences(seq))[k]]],
        Cardinality(FirstOccurrences(seq)))

Min2(a, b) == IF a <= b THEN a ELSE b
Max2(a, b) == IF a >= b THEN a ELSE b

-----------------------------------------------------------------------------
(* Exact rationals <<n, d>> with n >= 0 and d > 0 *)

RECURSIVE GCD(_, _)
GCD(a, b) == IF b = 0 THEN a ELSE GCD(b, a % b)

RNorm(n, d) == LET g == GCD(n, d) IN IF g = 0 THEN <<0, 1>> ELSE <<n \div g, d \div g>>

RAdd(a, b) == RNorm(a[1] * b[2] + b[1] * a[2], a[2] * b[2])
RMul(a, b) == RNorm(a[1] * b[1], a[2] * b[2])
RDiv(a, b) == RNorm(a[1] * b[2], a[2] * b[1])

\* a/b < c/d, by continued-fraction expansion (no cross products)
RECURSIVE RLessND(_, _, _, _)
RLessND(a, b, c, d) ==
  IF (a \div b) # (c \div d) THEN (a \div b) < (c \div d)
  ELSE IF c % d = 0 THEN FALSE
  ELSE IF a % b = 0 THEN TRUE
  ELSE RLessND(d, c % d, b, a % b)

RLess(a, b) == RLessND(a[1], a[2], b[1], b[2])
RLeq(a, b) == ~RLess(b, a)

RZero == <<0, 1>>
ROne == <<1, 1>>

-----------------------------------------------------------------------------
(* SimilarityEngine *)

MINIMUM_SIMILARITY_SCORE == <<8, 100>>
KEYWORD_WEIGHT == <<4, 10>>
SEMANTIC_WEIGHT == <<6, 10>>
authorWeight == <<5, 10>>
tagWeight == <<3, 10>>
lengthWeight == <<2, 10>>

stopWords ==
  {
    <<"t","h","e">>, <<"a">>, <<"a","n">>, <<"a","n","d">>, <<"o","r">>,
    <<"b","u","t">>, <<"i","n">>, <<"o","n">>, <<"a","t">>, <<"t","o">>,
    <<"f","o","r">>, <<"o","f">>, <<"w","i","t","h">>, <<"b","y">>,
    <<"i","s">>, <<"a","r","e">>, <<"w","a","s">>, <<"w","e","r","e">>,
    <<"b","e">>, <<"b","e","e","n">>, <<"b","e","i","n","g">>,
    <<"h","a","v","e">>, <<"h","a","s">>, <<"h","a","d">>, <<"d","o">>,
    <<"d","o","e","s">>, <<"d","i","d">>, <<"w","i","l","l">>,
    <<"w","o","u","l","d">>, <<"c","o","u","l","d">>,
    <<"s","h","o","u","l","d">>, <<"m","a","y">>, <<"m","i","g","h","t">>,
    <<"m","u","s","t">>, <<"c","a","n">>, <<"s","h","a","l","l">>,
    <<"t","h","i","s">>, <<"t","h","a","t">>, <<"t","h","e","s","e">>,
    <<"t","h","o","s","e">>, <<"i">>, <<"y","o","u">>, <<"h","e">>,
    <<"s","h","e">>, <<"i","t">>, <<"w","e">>, <<"t","h","e","y">>,
    <<"m","e">>, <<"h","i","m">>, <<"h","e","r">>, <<"u","s">>,
    <<"t","h","e","m">>, <<"m","y">>, <<"y","o","u","r">>, <<"h","i","s">>,
    <<"i","t","s">>, <<"o","u","r">>,
    <<"t","h","e","i","r">>, <<"n","o","t">>, <<"n","o">>, <<"y","e","s">>
  }

extractKeywords(text) ==
  Dedupe(SelectSeq(SplitWhitespace(StripPunctuation(toLowerCase(text))),
                   LAMBDA word : Len(word) > 2 /\ word \notin stopWords))

calculateKeywordSimilarity(quote1, quote2) ==
  LET keywords1 == extractKeywords(quote1.text)
      keywords2 == extractKeywords(quote2.text)
      intersection == SelectSeq(keywords1, LAMBDA k : Member(k, keywords2))
      union == Range(keywords1) \cup Range(keywords2)
  IN IF Len(keywords1) = 0 /\ Len(keywords2) = 0 THEN RZero
     ELSE RNorm(Len(intersection), Cardinality(union))

\* matrix[j][i] from row j-1 (prev) and the cells of row j so far (row)
LevCell(prev, row, str1, c, i) ==
  Min2(row[i] + 1,
       Min2(prev[i+1] + 1, prev[i] + (IF str1[i] = c THEN 0 ELSE 1)))

\* cells 1..Len(str1) of matrix row j, appended to row (cell 0 first);
\* row holds cells 0..i-1 on entry
RECURSIVE LevRow(_, _, _, _, _)
LevRow(prev, str1, c, i, row) ==
  IF i > Len(str1) \/ Len(row) # i THEN row
  ELSE LevRow(prev, str1, c, i + 1, Append(row, LevCell(prev, row, str1, c, i)))

\* rows j..Len(str2) of the matrix, given row j-1
RECURSIVE LevRows(_, _, _, _)
LevRows(str1, str2, j, prev) ==
  IF j > Len(str2) \/ Len(prev) # Len(str1) + 1 THEN prev
  ELSE LevRows(str1, str2, j + 1, LevRow(prev, str1, str2[j], 1, <<j>>))

calculateLevenshteinDistance(str1, str2) ==
  LevRows(str1, str2, 1, Tuple([i \in 1..(Len(str1) + 1) |-> i - 1], Len(str1) + 1))[Len(str1) + 1]

calculateAuthorSimilarity(author1, author2) ==
  LET name1 == trim(toLowerCase(author1))
      name2 == trim(toLowerCase(author2))
      maxLength == Max2(Len(name1), Len(name2))
      distance == calculateLevenshteinDistance(name1, name2)
  IN IF name1 = name2 THEN ROne
     ELSE IF includes(name1, name2) \/ includes(name2, name1) THEN <<8, 10>>
     ELSE IF maxLength - distance <= 0 THEN RZero
     ELSE RNorm(maxLength - distance, maxLength)

calculateTagSimilarity_NoNeutral(tags1, tags2) ==
  LET normalizedTags1 == Tuple([i \in DOMAIN tags1 |-> toLowerCase(tags1[i])], Len(tags1))
      normalizedTags2 == Tuple([i \in DOMAIN tags2 |-> toLowerCase(tags2[i])], Len(tags2))
      intersection == SelectSeq(normalizedTags1, LAMBDA t : Member(t, normalizedTags2))
      union == Range(normalizedTags1) \cup Range(normalizedTags2)
  IN IF Len(tags1) = 0 \/ Len(tags2) = 0 THEN RZero
     ELSE RNorm(Len(intersection), Cardinality(union))

calculateTagSimilarity(tags1, tags2) ==
  LET normalizedTags1 == Tuple([i \in DOMAIN tags1 |-> toLowerCase(tags1[i])], Len(tags1))
      normalizedTags2 == Tuple([i \in DOMAIN tags2 |-> toLowerCase(tags2[i])], Len(tags2))
      intersection == SelectSeq(normalizedTags1, LAMBDA t : Member(t, normalizedTags2))
      union == Range(normalizedTags1) \cup Range(normalizedTags2)
  IN IF Len(tags1) = 0 /\ Len(tags2) = 0 THEN <<5, 10>>
     ELSE IF Len(tags1) = 0 \/ Len(tags2) = 0 THEN RZero
     ELSE RNorm(Len(intersection), Cardinality(union))

calculateLengthSimilarity(text1, text2) ==
  LET maxLength == Max2(Len(text1), Len(text2))
      minLength == Min2(Len(text1), Len(text2))
  IN IF maxLength = 0 THEN ROne ELSE RNorm(minLength, maxLength)

\* the value of an absent (undefined) tags field
Undefined == "undefined"

\* quote.tags || []
TagsOrEmpty(tags) == IF tags = Undefined THEN <<>> ELSE tags

calculateSemanticSimilarity_DropsAuthorWeight(quote1, quote2) ==
  LET authorSim == calculateAuthorSimilarity(quote1.author, quote2.author)
      authorPart ==
        IF toLowerCase(quote1.author) = toLowerCase(quote2.author)
        THEN RMul(<<9, 10>>, authorWeight)
        ELSE IF RLess(<<7, 10>>, authorSim) THEN RMul(authorSim, authorWeight)
        ELSE RZero
      tagSimilarity == calculateTagSimilarity(TagsOrEmpty(quote1.tags), TagsOrEmpty(quote2.tags))
      lengthSimilarity == calculateLengthSimilarity(quote1.text, quote2.text)
      semanticScore == RAdd(RAdd(authorPart, RMul(tagSimilarity, tagWeight)),
                            RMul(lengthSimilarity, lengthWeight))
      totalWeight == RAdd(RAdd(IF authorPart = RZero THEN RZero ELSE authorWeight,
                               tagWeight), lengthWeight)
  IN IF RLess(RZero, totalWeight) THEN RDiv(semanticScore, totalWeight) ELSE RZero

calculateSemanticSimilarity(quote1, quote2) ==
  LET authorSim == calculateAuthorSimilarity(quote1.author, quote2.author)
      authorPart ==
        IF toLowerCase(quote1.author) = toLowerCase(quote2.author)
        THEN RMul(<<9, 10>>, authorWeight)
        ELSE IF RLess(<<7, 10>>, authorSim) THEN RMul(authorSim, authorWeight)
        ELSE RZero
      tagSimilarity == calculateTagSimilarity(TagsOrEmpty(quote1.tags), TagsOrEmpty(quote2.tags))
      lengthSimilarity == calculateLengthSimilarity(quote1.text, quote2.text)
      semanticScore == RAdd(RAdd(authorPart, RMul(tagSimilarity, tagWeight)),
                            RMul(lengthSimilarity, lengthWeight))
      totalWeight == RAdd(RAdd(authorWeight, tagWeight), lengthWeight)
  IN IF RLess(RZero, totalWeight) THEN RDiv(semanticScore, totalWeight) ELSE RZero

calculateOverallSimilarity(quote1, quote2) ==
  RAdd(RMul(calculateKeywordSimilarity(quote1, quote2), KEYWORD_WEIGHT),
       RMul(calculateSemanticSimilarity(quote1, quote2), SEMANTIC_WEIGHT))


SortedPos_LaterFirst(seq, i) ==
  1 + Cardinality({ j \in DOMAIN seq : RLess(seq[i].score, seq[j].score) })
    + Cardinality({ j \in (i+1)..Len(seq) : seq[j].score = seq[i].score })

\* position of entry i after a stable sort by descending score: behind every
\* entry with a higher score and every earlier entry with the same score
SortedPos(seq, i) ==
  1 + Cardinality({ j \in DOMAIN seq : RLess(seq[i].score, seq[j].score) })
    + Cardinality({ j \in 1..(i-1) : seq[j].score = seq[i].score })

SortByScoreDesc_Unsorted(seq) == seq

\* Array.prototype.sort((a, b) => b.score - a.score), a stable sort
SortByScoreDesc(seq) ==
  Tuple([k \in DOMAIN seq |-> seq[CHOOSE i \in DOMAIN seq : SortedPos(seq, i) = k]],
        Len(seq))

\* Array.prototype.slice(0, limit) for limit >= 0
slice(seq, limit) == SubSeq(seq, 1, Min2(limit, Len(seq)))

-----------------------------------------------------------------------------
(* utils/database *)

\* sanitizeTags: drop blank tags, trim and lower-case, keep the first ten
sanitizeTags(tags) ==
  IF tags = Undefined THEN Undefined
  ELSE LET kept == SelectSeq(tags, LAMBDA tag : Len(trim(tag)) > 0)
           mapped == Tuple([i \in DOMAIN kept |-> toLowerCase(trim(kept[i]))], Len(kept))
       IN slice(mapped, 10)

-----------------------------------------------------------------------------
(* The stored quotes *)

Q1 == <<"q","1">>
Q2 == <<"q","2">>
Q3 == <<"q","3">>
Q4 == <<"q","4">>

\* rows of the quotes table, in insertion order
StoredOrder == <<Q1, Q2, Q3, Q4>>
StoredIds == Range(StoredOrder)

TagWork == <<"w","o","r","k">>
TagTalent == <<"t","a","l","e","n","t">>

\* text, author and tags as given to QuoteRepository.create
CreateData(id) ==
  CASE id = Q1 ->
         [text |-> <<"H","a","r","d"," ","w","o","r","k"," ","b","e","a","t","s"," ",
                     "t","a","l","e","n","t">>,
          author |-> <<"T","i","m"," ","N","o","t","k","e">>,
          tags |-> <<TagWork, <<"T","a","l","e","n","t"," ">> >>]
    [] id = Q2 ->
         [text |-> <<"T","a","l","e","n","t"," ","w","i","t","h","o","u","t"," ",
                     "h","a","r","d"," ","w","o","r","k"," ","i","s"," ",
                     "n","o","t","h","i","n","g">>,
          author |-> <<"t","i","m"," ","n","o","t","k","e">>,
          tags |-> <<TagWork>>]
    [] id = Q3 ->
         [text |-> <<"W","o","r","k"," ","h","a","r","d",","," ","s","t","a","y"," ",
                     "h","u","m","b","l","e">>,
          author |-> <<"N","o","t","k","e">>,
          tags |-> <<TagWork, <<" ">> >>]
    [] id = Q4 ->
         [text |-> <<"B","e"," ","k","i","n","d">>,
          author |-> <<"L","a","o"," ","T","z","u">>,
          tags |-> Undefined]

\* the row QuoteRepository.create stores: sanitized tags, likes 0
create(id) ==
  [id |-> id,
   text |-> CreateData(id).text,
   author |-> CreateData(id).author,
   tags |-> sanitizeTags(CreateData(id).tags),
   likes |-> 0]

\* data given to QuoteRepository.create when the pool's content is varied
ScoreTextSeq == <<<<"B","e"," ","k","i","n","d">>,
                 <<"K","i","n","d"," ","w","o","r","d","s">>,
                 <<"W","o","r","k">>>>
ScoreTexts == Range(ScoreTextSeq)

ScoreAuthorSeq == <<<<"L","a","o">>, <<"l","a","o">>, <<"L","e","o">>>>
ScoreAuthors == Range(ScoreAuthorSeq)

TagLife == <<"l","i","f","e">>

\* tag lists as given to QuoteRepository.create: none, empty, one tag, a tag
\* given twice, and two tags to be trimmed and lower-cased
ScoreTagListSeq ==
  <<Undefined, <<>>, <<TagLife>>, <<TagLife, TagLife>>, <<<<"L","i","f","e"," ">>, TagWork>>>>
ScoreTagLists == Range(ScoreTagListSeq)

ScoreData == [text : ScoreTexts, author : ScoreAuthors, tags : ScoreTagLists]

\* the row QuoteRepository.create stores for data
createWith(id, data) ==
  [id |-> id,
   text |-> data.text,
   author |-> data.author,
   tags |-> sanitizeTags(data.tags),
   likes |-> 0]

\* text, author and stored tags of a row
ContentOf(quote) == <<quote.text, quote.author, quote.tags>>

\* the contents of the rows that create can store: the stored quotes first
ContentSeq ==
  Tuple([k \in 1..(Len(StoredOrder)
                     + Len(ScoreTextSeq) * Len(ScoreAuthorSeq) * Len(ScoreTagListSeq)) |->
           IF k <= Len(StoredOrder)
           THEN ContentOf(create(StoredOrder[k]))
           ELSE <<ScoreTextSeq[((k - Len(StoredOrder) - 1)
                                  \div (Len(ScoreAuthorSeq) * Len(ScoreTagListSeq))) + 1],
                  ScoreAuthorSeq[(((k - Len(StoredOrder) - 1) \div Len(ScoreTagListSeq))
                                   % Len(ScoreAuthorSeq)) + 1],
                  sanitizeTags(ScoreTagListSeq[((k - Len(StoredOrder) - 1)
                                                  % Len(ScoreTagListSeq)) + 1])>>],
        Len(StoredOrder) + Len(ScoreTextSeq) * Len(ScoreAuthorSeq) * Len(ScoreTagListSeq))

\* calculateOverallSimilarity of every pair of stored quotes, computed once:
\* the score depends on text, author and tags only, which never change
StoredSimilarity ==
  Tuple([i \in DOMAIN StoredOrder |->
           Tuple([j \in DOMAIN StoredOrder |->
                    calculateOverallSimilarity(create(StoredOrder[i]),
                                               create(StoredOrder[j]))],
                 Len(StoredOrder))],
        Len(StoredOrder))

\* calculateOverallSimilarity of every pair of contents, computed once
ContentSimilarity ==
  Tuple([i \in DOMAIN ContentSeq |->
           Tuple([j \in DOMAIN ContentSeq |->
                    calculateOverallSimilarity(
                      [text |-> ContentSeq[i][1], author |-> ContentSeq[i][2],
                       tags |-> ContentSeq[i][3]],
                      [text |-> ContentSeq[j][1], author |-> ContentSeq[j][2],
                       tags |-> ContentSeq[j][3]])],
                 Len(ContentSeq))],
        Len(ContentSeq))

\* equality of two stored tag values, either of which may be undefined
SameTags(tags1, tags2) ==
  IF tags1 = Undefined THEN tags2 = Undefined
  ELSE IF tags2 = Undefined THEN FALSE
  ELSE tags1 = tags2

SameContent(quote, id) ==
  /\ quote.text = CreateData(id).text
  /\ quote.author = CreateData(id).author
  /\ SameTags(quote.tags, sanitizeTags(CreateData(id).tags))

IsContent(k, quote) ==
  /\ ContentSeq[k][1] = quote.text
  /\ ContentSeq[k][2] = quote.author
  /\ SameTags(ContentSeq[k][3], quote.tags)

StoredIndex(id) == CHOOSE i \in DOMAIN StoredOrder : StoredOrder[i] = id

Known(quote) == \E k \in DOMAIN ContentSeq : IsContent(k, quote)

ContentIndex(quote) == CHOOSE k \in DOMAIN ContentSeq : IsContent(k, quote)

\* a score that grows with the candidate's likes
OverallSimilarity_LikesBonus(quote1, quote2) ==
  RAdd(calculateOverallSimilarity(quote1, quote2), RNorm(quote2.likes, 100))

\* calculateOverallSimilarity(quote1, quote2), looked up when it was computed before
OverallSimilarity(quote1, quote2) ==
  IF /\ quote1.id \in StoredIds /\ SameContent(quote1, quote1.id)
     /\ quote2.id \in StoredIds /\ SameContent(quote2, quote2.id)
  THEN StoredSimilarity[StoredIndex(quote1.id)][StoredIndex(quote2.id)]
  ELSE IF Known(quote1) /\ Known(quote2)
  THEN ContentSimilarity[ContentIndex(quote1)][ContentIndex(quote2)]
  ELSE calculateOverallSimilarity(quote1, quote2)

\* findSimilarQuotes without the id filter
findSimilarQuotes_KeepsTarget(targetQuote, candidateQuotes, limit) ==
  LET scored == Tuple([i \in DOMAIN candidateQuotes |->
                         [quote |-> candidateQuotes[i],
                          score |-> OverallSimilarity(targetQuote, candidateQuotes[i])]],
                      Len(candidateQuotes))
      similarities ==
        SelectSeq(scored, LAMBDA e : RLeq(MINIMUM_SIMILARITY_SCORE, e.score))
  IN slice(SortByScoreDesc(similarities), limit)

findSimilarQuotes(targetQuote, candidateQuotes, limit) ==
  LET scored == Tuple([i \in DOMAIN candidateQuotes |->
                         [quote |-> candidateQuotes[i],
                          score |-> OverallSimilarity(targetQuote, candidateQuotes[i])]],
                      Len(candidateQuotes))
      similarities ==
        SelectSeq(scored, LAMBDA e : /\ e.quote.id # targetQuote.id
                                     /\ RLeq(MINIMUM_SIMILARITY_SCORE, e.score))
  IN slice(SortByScoreDesc(similarities), limit)

-----------------------------------------------------------------------------
(* State *)

VARIABLES
  quotes,          \* the quotes table: stored id -> row
  redis,           \* the Redis store: key -> [value, ttl] or Nil
  similarityRows,  \* the quote_similarities table: a set of rows
  req              \* the requests in flight: slot -> its position and locals

vars == <<quotes, redis, similarityRows, req>>

\* null / undefined / no entry
Nil == <<>>

\* two calls can be in progress at once
Requests == {"client", "peer"}

UnknownId == <<"q","9">>
PaddedId == <<" ","q","2"," ">>
BlankId == <<" ">>
EmptyId == <<>>

\* the limits a caller passes in: below, inside and above 1..50
AskLimits == {0, 51} \cup (1..MaxAskLimit)

\* the ids a caller passes to getSimilarQuotes: stored quotes with two
\* qualifying candidates (Q1, and Q2 padded with spaces) and with none (Q4),
\* an id that names no quote, and a blank id
GetSimilarIds == {Q1, Q4, PaddedId, UnknownId, BlankId}

\* the ids a caller passes to likeQuote
LikeIds == {Q1, UnknownId, BlankId, EmptyId}

QUOTE_PREFIX == "quote:"
SIMILAR_QUOTES_PREFIX == "similar:"
RANDOM_QUOTE_KEY == <<"random_quotes">>

QuoteKey(id) == <<QUOTE_PREFIX, id>>
SimilarKey(id) == <<SIMILAR_QUOTES_PREFIX, id>>

CacheIds == StoredIds \cup {UnknownId}
Keys == { QuoteKey(id) : id \in CacheIds } \cup { SimilarKey(id) : id \in CacheIds }
          \cup {RANDOM_QUOTE_KEY}

CACHE_TTL == 3600
similarityTtl == CACHE_TTL * 2

VALIDATION_ERROR == "VALIDATION_ERROR"
QUOTE_NOT_FOUND == "QUOTE_NOT_FOUND"
DATABASE_ERROR == "DATABASE_ERROR"
NoError == "none"

\* Math.random was not called
NoDraw == -1

\* a request slot with no call in progress.  The call's locals are id, limit,
\* target (targetQuote / updatedQuote), allQuotes (the pool getSimilarQuotes
\* fetched) and sims (similarities); result and err
\* are what the caller gets; excludeIds, minLikes and offset (randomOffset)
\* are the locals of a selection.  The other fields record what the call did:
\* via (how the result was obtained), before (the likes stored when likeQuote
\* began), cacheOps (the Redis commands it issued), cacheErr (one of them
\* failed), removed (the keys its del commands removed), pool (the ids of the
\* rows a selection walked, in order) and random (the value Math.random
\* returned, in units of 1/RandomGrain, NoDraw when it was not called).
IdleReq ==
  [op |-> "idle", pc |-> "idle", id |-> EmptyId, limit |-> 0, target |-> Nil,
   allQuotes |-> <<>>, sims |-> <<>>, result |-> <<>>, err |-> NoError, via |-> "none",
   before |-> 0, cacheOps |-> 0, cacheErr |-> FALSE, removed |-> {},
   excludeIds |-> {}, minLikes |-> 0, offset |-> 0, pool |-> <<>>, random |-> NoDraw]

Init ==
  /\ quotes = [id \in StoredIds |-> create(id)]
  /\ redis = [k \in Keys |-> Nil]
  /\ similarityRows = {}
  /\ req = [r \in Requests |-> IdleReq]

-----------------------------------------------------------------------------
(* QuoteRepository *)

\* position of stored row i under ORDER BY likes DESC (ties in insertion order)
LikesPos(i) ==
  1 + Cardinality({ j \in DOMAIN StoredOrder :
                      quotes[StoredOrder[j]].likes > quotes[StoredOrder[i]].likes })
    + Cardinality({ j \in 1..(i-1) :
                      quotes[StoredOrder[j]].likes = quotes[StoredOrder[i]].likes })

findAll ==
  Tuple([k \in DOMAIN StoredOrder |->
           quotes[StoredOrder[CHOOSE i \in DOMAIN StoredOrder : LikesPos(i) = k]]],
        Len(StoredOrder))

findById(id) == IF id \in DOMAIN quotes THEN quotes[id] ELSE Nil

exists(id) == Cardinality({ q \in DOMAIN quotes : q = id }) > 0

incrementLikes(id) == [quotes EXCEPT ![id].likes = @ + 1]

\* rows written by cacheSimilarities(quoteId, similarities)
SimilarityData(quoteId, similarities) ==
  { [quoteId |-> quoteId,
     similarQuoteId |-> similarities[i].quote.id,
     similarityScore |-> similarities[i].score] : i \in DOMAIN similarities }

cacheSimilarities(quoteId, similarities) ==
  { row \in similarityRows : row.quoteId # quoteId }
    \cup SimilarityData(quoteId, similarities)

clearCachedSimilarities(quoteId) ==
  { row \in similarityRows : row.quoteId # quoteId /\ row.similarQuoteId # quoteId }

\* a direct caller of the repository stores the ranking of a quote
RepoCacheSimilarities(id) ==
  /\ id \in StoredIds
  /\ \A row \in similarityRows : row.quoteId # id
  /\ similarityRows' =
       cacheSimilarities(id, findSimilarQuotes(quotes[id], findAll, MaxAskLimit))
  /\ similarityRows' # similarityRows
  /\ UNCHANGED <<quotes, redis, req>>

\* a direct caller of the repository clears the rows of a quote
RepoClearCachedSimilarities(id) ==
  /\ id \in StoredIds
  /\ similarityRows' = clearCachedSimilarities(id)
  /\ similarityRows' # similarityRows
  /\ UNCHANGED <<quotes, redis, req>>

-----------------------------------------------------------------------------
(* Redis: an entry written with a ttl disappears when the ttl runs out *)

Expire(k) ==
  /\ k \in Keys
  /\ redis[k] # Nil
  /\ redis[k].ttl > 0
  /\ redis' = [redis EXCEPT ![k] = Nil]
  /\ UNCHANGED <<quotes, similarityRows, req>>

-----------------------------------------------------------------------------
(* CacheService: every Redis failure is caught and logged *)

\* getSimilarQuotes(quoteId): the cached list, or null on a miss or a failure
cacheGetSimilarQuotes(quoteId, ok) ==
  IF ok /\ redis[SimilarKey(quoteId)] # Nil
  THEN redis[SimilarKey(quoteId)].value
  ELSE Nil

\* setSimilarQuotes writing the entry with a plain SET, without expiry
cacheSetSimilarQuotes_NoExpiry(quoteId, similarQuotes, ttl, ok) ==
  IF ok
  THEN [redis EXCEPT ![SimilarKey(quoteId)] = [value |-> similarQuotes, ttl |-> 0]]
  ELSE redis

\* setSimilarQuotes(quoteId, similarQuotes, ttl): ttl = 0 stands for no ttl given.
\* The list is stored as JSON and parsed when read; ids, texts, authors, tags,
\* likes and scores come back as they were written (an undefined tags field is
\* left out and read back as undefined).
cacheSetSimilarQuotes(quoteId, similarQuotes, ttl, ok) ==
  IF ok
  THEN [redis EXCEPT ![SimilarKey(quoteId)] =
          [value |-> similarQuotes,
           ttl |-> IF ttl # 0 THEN ttl ELSE similarityTtl]]
  ELSE redis

\* redisClient.del(key)
redisDel(key, ok) == IF ok THEN [redis EXCEPT ![key] = Nil] ELSE redis

\* the keys that del(key) removes
Removed(key, ok) == IF ok /\ redis[key] # Nil THEN {key} ELSE {}

-----------------------------------------------------------------------------
(* QuoteService.getSimilarQuotes *)

\* !id || id.trim().length === 0
InvalidId(id) == Len(id) = 0 \/ Len(trim(id)) = 0

\* limit <= 0 || limit > 50
InvalidLimit(limit) == limit <= 0 \/ limit > 50

Fail(r, code) ==
  [req EXCEPT ![r].pc = "done", ![r].err = code, ![r].target = Nil]

\* GetSimilarBegin with the lower limit check off by one (limit < 0)
GetSimilarBegin_AcceptsZero(r, id, limit) ==
  /\ req[r].pc \in {"idle", "done"}
  /\ req' = [req EXCEPT ![r] =
       IF InvalidId(id) \/ limit < 0 \/ limit > 50
       THEN [IdleReq EXCEPT !.op = "getSimilar", !.pc = "done", !.id = id,
                            !.limit = limit, !.err = VALIDATION_ERROR]
       ELSE [IdleReq EXCEPT !.op = "getSimilar", !.pc = "findById", !.id = id,
                            !.limit = limit]]
  /\ UNCHANGED <<quotes, redis, similarityRows>>

GetSimilarBegin(r, id, limit) ==
  /\ req[r].pc \in {"idle", "done"}
  /\ req' = [req EXCEPT ![r] =
       IF InvalidId(id) \/ InvalidLimit(limit)
       THEN [IdleReq EXCEPT !.op = "getSimilar", !.pc = "done", !.id = id,
                            !.limit = limit, !.err = VALIDATION_ERROR]
       ELSE [IdleReq EXCEPT !.op = "getSimilar", !.pc = "findById", !.id = id,
                            !.limit = limit]]
  /\ UNCHANGED <<quotes, redis, similarityRows>>

\* GetSimilarFindById with the cache read before the not-found check
GetSimilarFindById_ReadsCacheFirst(r) ==
  /\ req[r].op = "getSimilar"
  /\ req[r].pc = "findById"
  /\ \E ok \in BOOLEAN :
       req' = IF ~ok THEN Fail(r, DATABASE_ERROR)
              ELSE IF findById(trim(req[r].id)) = Nil
              THEN [req EXCEPT ![r].pc = "done", ![r].err = QUOTE_NOT_FOUND,
                               ![r].cacheOps = @ + 1]
              ELSE [req EXCEPT ![r].pc = "cacheGet",
                               ![r].target = findById(trim(req[r].id))]
  /\ UNCHANGED <<quotes, redis, similarityRows>>

GetSimilarFindById(r) ==
  /\ req[r].op = "getSimilar"
  /\ req[r].pc = "findById"
  /\ \E ok \in BOOLEAN :
       req' = IF ~ok THEN Fail(r, DATABASE_ERROR)
              ELSE IF findById(trim(req[r].id)) = Nil THEN Fail(r, QUOTE_NOT_FOUND)
              ELSE [req EXCEPT ![r].pc = "cacheGet",
                               ![r].target = findById(trim(req[r].id))]
  /\ UNCHANGED <<quotes, redis, similarityRows>>

\* GetSimilarCacheGet with a Redis failure thrown on to the service's catch
GetSimilarCacheGet_Throws(r) ==
  /\ req[r].op = "getSimilar"
  /\ req[r].pc = "cacheGet"
  /\ \E ok \in BOOLEAN :
       req' = IF ~ok
              THEN [req EXCEPT ![r].pc = "done",
                               ![r].target = Nil,
                               ![r].err = DATABASE_ERROR,
                               ![r].cacheOps = @ + 1,
                               ![r].cacheErr = TRUE]
              ELSE IF Len(cacheGetSimilarQuotes(trim(req[r].id), ok)) > 0
              THEN [req EXCEPT ![r].pc = "done",
                               ![r].target = Nil,
                               ![r].result = slice(cacheGetSimilarQuotes(trim(req[r].id), ok),
                                                   req[r].limit),
                               ![r].via = "cache",
                               ![r].cacheOps = @ + 1]
              ELSE [req EXCEPT ![r].pc = "findAll",
                               ![r].cacheOps = @ + 1]
  /\ UNCHANGED <<quotes, redis, similarityRows>>

\* GetSimilarCacheGet with a cached empty list taken for a hit
GetSimilarCacheGet_ServesEmpty(r) ==
  /\ req[r].op = "getSimilar"
  /\ req[r].pc = "cacheGet"
  /\ \E ok \in BOOLEAN :
       req' = IF ok /\ redis[SimilarKey(trim(req[r].id))] # Nil
              THEN [req EXCEPT ![r].pc = "done",
                               ![r].target = Nil,
                               ![r].result = slice(cacheGetSimilarQuotes(trim(req[r].id), ok),
                                                   req[r].limit),
                               ![r].via = "cache",
                               ![r].cacheOps = @ + 1]
              ELSE [req EXCEPT ![r].pc = "findAll",
                               ![r].cacheOps = @ + 1,
                               ![r].cacheErr = ~ok]
  /\ UNCHANGED <<quotes, redis, similarityRows>>

GetSimilarCacheGet(r) ==
  /\ req[r].op = "getSimilar"
  /\ req[r].pc = "cacheGet"
  /\ \E ok \in BOOLEAN :
       req' = IF Len(cacheGetSimilarQuotes(trim(req[r].id), ok)) > 0
              THEN [req EXCEPT ![r].pc = "done",
                               ![r].target = Nil,
                               ![r].result = slice(cacheGetSimilarQuotes(trim(req[r].id), ok),
                                                   req[r].limit),
                               ![r].via = "cache",
                               ![r].cacheOps = @ + 1]
              ELSE [req EXCEPT ![r].pc = "findAll",
                               ![r].cacheOps = @ + 1,
                               ![r].cacheErr = ~ok]
  /\ UNCHANGED <<quotes, redis, similarityRows>>

\* GetSimilarFindAll with a failed pool fetch taken for an empty pool
GetSimilarFindAll_Absorbs(r) ==
  /\ req[r].op = "getSimilar"
  /\ req[r].pc = "findAll"
  /\ \E ok \in BOOLEAN :
       req' = [req EXCEPT ![r].pc = "cacheSet",
                          ![r].allQuotes = IF ok THEN findAll ELSE <<>>,
                          ![r].sims = IF ok
                                      THEN findSimilarQuotes(req[r].target, findAll,
                                                             req[r].limit)
                                      ELSE <<>>]
  /\ UNCHANGED <<quotes, redis, similarityRows>>

GetSimilarFindAll(r) ==
  /\ req[r].op = "getSimilar"
  /\ req[r].pc = "findAll"
  /\ \E ok \in BOOLEAN :
       req' = IF ~ok THEN Fail(r, DATABASE_ERROR)
              ELSE [req EXCEPT ![r].pc = "cacheSet",
                               ![r].allQuotes = findAll,
                               ![r].sims = findSimilarQuotes(req[r].target, findAll,
                                                             req[r].limit)]
  /\ UNCHANGED <<quotes, redis, similarityRows>>

\* GetSimilarCacheSet with the ranking also written to quote_similarities
GetSimilarCacheSet_WritesRows(r) ==
  /\ req[r].op = "getSimilar"
  /\ req[r].pc = "cacheSet"
  /\ \E ok \in BOOLEAN :
       /\ redis' = cacheSetSimilarQuotes(trim(req[r].id), req[r].sims, 0, ok)
       /\ req' = [req EXCEPT ![r].pc = "done",
                             ![r].target = Nil,
                             ![r].allQuotes = <<>>,
                             ![r].sims = <<>>,
                             ![r].result = req[r].sims,
                             ![r].via = "computed",
                             ![r].cacheOps = @ + 1,
                             ![r].cacheErr = @ \/ ~ok]
  /\ similarityRows' = cacheSimilarities(trim(req[r].id), req[r].sims)
  /\ UNCHANGED quotes

GetSimilarCacheSet(r) ==
  /\ req[r].op = "getSimilar"
  /\ req[r].pc = "cacheSet"
  /\ \E ok \in BOOLEAN :
       /\ redis' = cacheSetSimilarQuotes(trim(req[r].id), req[r].sims, 0, ok)
       /\ req' = [req EXCEPT ![r].pc = "done",
                             ![r].target = Nil,
                             ![r].allQuotes = <<>>,
                             ![r].sims = <<>>,
                             ![r].result = req[r].sims,
                             ![r].via = "computed",
                             ![r].cacheOps = @ + 1,
                             ![r].cacheErr = @ \/ ~ok]
  /\ UNCHANGED <<quotes, similarityRows>>

-----------------------------------------------------------------------------
(* QuoteService.likeQuote *)

\* likeQuote calls for id that have not yet incremented
PendingLikes(id) ==
  Cardinality({ r \in Requests : /\ req[r].op = "like"
                                 /\ req[r].pc \in {"exists", "increment"}
                                 /\ trim(req[r].id) = id })

LikeBegin(r, id) ==
  /\ req[r].pc \in {"idle", "done"}
  /\ trim(id) \in StoredIds => quotes[trim(id)].likes + PendingLikes(trim(id)) < MaxLikes
  /\ req' = [req EXCEPT ![r] =
       IF InvalidId(id)
       THEN [IdleReq EXCEPT !.op = "like", !.pc = "done", !.id = id,
                            !.err = VALIDATION_ERROR]
       ELSE [IdleReq EXCEPT !.op = "like", !.pc = "exists", !.id = id,
                            !.before = IF trim(id) \in StoredIds
                                       THEN quotes[trim(id)].likes ELSE 0]]
  /\ UNCHANGED <<quotes, redis, similarityRows>>

\* LikeExists with the cached list of the quote dropped before the increment
LikeExists_InvalidatesFirst(r) ==
  /\ req[r].op = "like"
  /\ req[r].pc = "exists"
  /\ \E ok \in BOOLEAN :
       req' = IF ~ok THEN Fail(r, DATABASE_ERROR)
              ELSE IF ~exists(trim(req[r].id)) THEN Fail(r, QUOTE_NOT_FOUND)
              ELSE [req EXCEPT ![r].pc = "increment"]
  /\ redis' = redisDel(SimilarKey(trim(req[r].id)), TRUE)
  /\ UNCHANGED <<quotes, similarityRows>>

LikeExists(r) ==
  /\ req[r].op = "like"
  /\ req[r].pc = "exists"
  /\ \E ok \in BOOLEAN :
       req' = IF ~ok THEN Fail(r, DATABASE_ERROR)
              ELSE IF ~exists(trim(req[r].id)) THEN Fail(r, QUOTE_NOT_FOUND)
              ELSE [req EXCEPT ![r].pc = "increment"]
  /\ UNCHANGED <<quotes, redis, similarityRows>>

\* LikeIncrement with the update applied although the call reports a failure
LikeIncrement_FailsAfterUpdate(r) ==
  /\ req[r].op = "like"
  /\ req[r].pc = "increment"
  /\ \E ok \in BOOLEAN :
       IF ~ok
       THEN /\ req' = Fail(r, DATABASE_ERROR)
            /\ quotes' = incrementLikes(trim(req[r].id))
       ELSE /\ quotes' = incrementLikes(trim(req[r].id))
            /\ req' = [req EXCEPT ![r].pc = "invalidateQuote",
                                  ![r].target = quotes'[trim(req[r].id)]]
  /\ UNCHANGED <<redis, similarityRows>>

\* LikeIncrement as a read followed by a write of the value read plus one
LikeIncrement_ReadThenWrite(r) ==
  /\ req[r].op = "like"
  /\ req[r].pc = "increment"
  /\ \E ok \in BOOLEAN :
       IF ~ok
       THEN /\ req' = Fail(r, DATABASE_ERROR)
            /\ UNCHANGED quotes
       ELSE /\ quotes' = [quotes EXCEPT ![trim(req[r].id)].likes = req[r].before + 1]
            /\ req' = [req EXCEPT ![r].pc = "invalidateQuote",
                                  ![r].target = quotes'[trim(req[r].id)]]
  /\ UNCHANGED <<redis, similarityRows>>

LikeIncrement(r) ==
  /\ req[r].op = "like"
  /\ req[r].pc = "increment"
  /\ \E ok \in BOOLEAN :
       IF ~ok
       THEN /\ req' = Fail(r, DATABASE_ERROR)
            /\ UNCHANGED quotes
       ELSE /\ quotes' = incrementLikes(trim(req[r].id))
            /\ req' = [req EXCEPT ![r].pc = "invalidateQuote",
                                  ![r].target = quotes'[trim(req[r].id)]]
  /\ UNCHANGED <<redis, similarityRows>>

\* invalidateQuote, first del: a failure skips the second del
LikeInvalidateQuoteKey(r) ==
  /\ req[r].op = "like"
  /\ req[r].pc = "invalidateQuote"
  /\ \E ok \in BOOLEAN :
       /\ redis' = redisDel(QuoteKey(req[r].target.id), ok)
       /\ req' = [req EXCEPT ![r].pc = IF ok THEN "invalidateSimilar"
                                       ELSE "invalidateRandom",
                             ![r].cacheOps = @ + 1,
                             ![r].cacheErr = @ \/ ~ok,
                             ![r].removed = @ \cup Removed(QuoteKey(req[r].target.id), ok)]
  /\ UNCHANGED <<quotes, similarityRows>>

\* LikeInvalidateSimilarKey with the del issued for the quote: key once more
LikeInvalidateSimilarKey_WrongKey(r) ==
  /\ req[r].op = "like"
  /\ req[r].pc = "invalidateSimilar"
  /\ \E ok \in BOOLEAN :
       /\ redis' = redisDel(QuoteKey(req[r].target.id), ok)
       /\ req' = [req EXCEPT ![r].pc = "invalidateRandom",
                             ![r].cacheOps = @ + 1,
                             ![r].cacheErr = @ \/ ~ok,
                             ![r].removed = @ \cup Removed(QuoteKey(req[r].target.id), ok)]
  /\ UNCHANGED <<quotes, similarityRows>>

\* LikeInvalidateSimilarKey followed by clearCachedSimilarities(id)
LikeInvalidateSimilarKey_ClearsRows(r) ==
  /\ req[r].op = "like"
  /\ req[r].pc = "invalidateSimilar"
  /\ \E ok \in BOOLEAN :
       /\ redis' = redisDel(SimilarKey(req[r].target.id), ok)
       /\ req' = [req EXCEPT ![r].pc = "invalidateRandom",
                             ![r].cacheOps = @ + 1,
                             ![r].cacheErr = @ \/ ~ok,
                             ![r].removed = @ \cup Removed(SimilarKey(req[r].target.id), ok)]
  /\ similarityRows' = clearCachedSimilarities(req[r].target.id)
  /\ UNCHANGED quotes

\* invalidateQuote, second del
LikeInvalidateSimilarKey(r) ==
  /\ req[r].op = "like"
  /\ req[r].pc = "invalidateSimilar"
  /\ \E ok \in BOOLEAN :
       /\ redis' = redisDel(SimilarKey(req[r].target.id), ok)
       /\ req' = [req EXCEPT ![r].pc = "invalidateRandom",
                             ![r].cacheOps = @ + 1,
                             ![r].cacheErr = @ \/ ~ok,
                             ![r].removed = @ \cup Removed(SimilarKey(req[r].target.id), ok)]
  /\ UNCHANGED <<quotes, similarityRows>>

\* invalidateRandomQuotes, then return updatedQuote
LikeInvalidateRandom(r) ==
  /\ req[r].op = "like"
  /\ req[r].pc = "invalidateRandom"
  /\ \E ok \in BOOLEAN :
       /\ redis' = redisDel(RANDOM_QUOTE_KEY, ok)
       /\ req' = [req EXCEPT ![r].pc = "done",
                             ![r].target = Nil,
                             ![r].result = req[r].target,
                             ![r].via = "like",
                             ![r].cacheOps = @ + 1,
                             ![r].cacheErr = @ \/ ~ok,
                             ![r].removed = @ \cup Removed(RANDOM_QUOTE_KEY, ok)]
  /\ UNCHANGED <<quotes, similarityRows>>

-----------------------------------------------------------------------------

\* one caller that issues its calls one after the other, with every input
Next ==
  \/ \E id \in GetSimilarIds, limit \in AskLimits : GetSimilarBegin("client", id, limit)
  \/ GetSimilarFindById("client")
  \/ GetSimilarCacheGet("client")
  \/ GetSimilarFindAll("client")
  \/ GetSimilarCacheSet("client")
  \/ \E id \in LikeIds : LikeBegin("client", id)
  \/ LikeExists("client")
  \/ LikeIncrement("client")
  \/ LikeInvalidateQuoteKey("client")
  \/ LikeInvalidateSimilarKey("client")
  \/ LikeInvalidateRandom("client")
  \/ \E k \in Keys : Expire(k)
  \/ \E id \in {Q1, Q2} : RepoCacheSimilarities(id)
  \/ RepoClearCachedSimilarities(Q2)

Spec == Init /\ [][Next]_vars

\* one caller asking for the quotes similar to Q1 or Q4 and liking Q1
NextLive ==
  \/ \E id \in {Q1, Q4}, limit \in 1..MaxAskLimit : GetSimilarBegin("client", id, limit)
  \/ GetSimilarFindById("client")
  \/ GetSimilarCacheGet("client")
  \/ GetSimilarFindAll("client")
  \/ GetSimilarCacheSet("client")
  \/ LikeBegin("client", Q1)
  \/ LikeExists("client")
  \/ LikeIncrement("client")
  \/ LikeInvalidateQuoteKey("client")
  \/ LikeInvalidateSimilarKey("client")
  \/ LikeInvalidateRandom("client")
  \/ \E k \in Keys : Expire(k)

\* Redis removes an entry whose ttl has run out: time does not stop
SpecLive == Init /\ [][NextLive]_vars /\ \A id \in CacheIds : WF_vars(Expire(SimilarKey(id)))

\* two callers that issue well-formed calls on the quote Q1 concurrently
NextConc ==
  \/ \E r \in Requests, limit \in 1..MaxAskLimit : GetSimilarBegin(r, Q1, limit)
  \/ \E r \in Requests : GetSimilarFindById(r)
  \/ \E r \in Requests : GetSimilarCacheGet(r)
  \/ \E r \in Requests : GetSimilarFindAll(r)
  \/ \E r \in Requests : GetSimilarCacheSet(r)
  \/ \E r \in Requests : LikeBegin(r, Q1)
  \/ \E r \in Requests : LikeExists(r)
  \/ \E r \in Requests : LikeIncrement(r)
  \/ \E r \in Requests : LikeInvalidateQuoteKey(r)
  \/ \E r \in Requests : LikeInvalidateSimilarKey(r)
  \/ \E r \in Requests : LikeInvalidateRandom(r)
  \/ \E k \in Keys : Expire(k)

SpecConc == Init /\ [][NextConc]_vars

-----------------------------------------------------------------------------
(* SimilarityEngine.findSimilarQuotes called on pools of varying content *)

\* the quotes Q1 and Q2 are created with any of the data, Q3 and Q4 as before
InitScore ==
  /\ \E d1, d2 \in ScoreData :
       quotes = [id \in StoredIds |-> IF id = Q1 THEN createWith(Q1, d1)
                                      ELSE IF id = Q2 THEN createWith(Q2, d2)
                                      ELSE create(id)]
  /\ redis = [k \in Keys |-> Nil]
  /\ similarityRows = {}
  /\ req = [r \in Requests |-> IdleReq]

\* similarityEngine.findSimilarQuotes(target, pool, limit) on the stored pool
Rank(r, id, limit) ==
  /\ req[r].pc \in {"idle", "done"}
  /\ req' = [req EXCEPT ![r] =
       [IdleReq EXCEPT !.op = "rank", !.pc = "done", !.id = id, !.limit = limit,
                       !.result = findSimilarQuotes(quotes[id], findAll, limit),
                       !.via = "computed"]]
  /\ UNCHANGED <<quotes, redis, similarityRows>>

\* the targets rank is called with
RankTargets == {Q1, Q2, Q4}

NextScore ==
  \E id \in RankTargets, limit \in 1..MaxAskLimit : Rank("client", id, limit)

SpecScore == InitScore /\ [][NextScore]_vars

-----------------------------------------------------------------------------
(* QuoteRepository.getWeightedRandom and getRandom *)

\* a quote stored after start-up (QuoteService.cacheExternalQuote)
Q5 == <<"q","5">>

\* the excludeIds and minLikes the selections are called with
ExcludeSets == {{}, {Q1}, {Q2, Q3, Q4}, {Q1, Q2, Q3, Q4}}
MinLikesAsked == {0, 1}

\* the values Math.random() returns, in units of 1/RandomGrain
Draws == 0..(RandomGrain - 1)

Where_StrictLikes(minLikes, excludeIds) ==
  { id \in DOMAIN quotes : quotes[id].likes > minLikes /\ id \notin excludeIds }

\* where: { likes: { gte: minLikes }, id: { notIn: excludeIds } }
Where(minLikes, excludeIds) ==
  { id \in DOMAIN quotes : quotes[id].likes >= minLikes /\ id \notin excludeIds }

\* the orders in which a query can return the rows ids
Orders(ids) ==
  { Tuple(f, Cardinality(ids)) :
      f \in { g \in [1..Cardinality(ids) -> ids] :
                \A i, j \in 1..Cardinality(ids) : i # j => g[i] # g[j] } }

\* orderBy: { likes: 'desc' }; rows with equal likes come in any order
OrdersByLikesDesc(ids) ==
  { order \in Orders(ids) :
      \A i, j \in DOMAIN order : i < j => quotes[order[i]].likes >= quotes[order[j]].likes }

Weights_LikesOnly(order) ==
  Tuple([i \in DOMAIN order |-> quotes[order[i]].likes], Len(order))

\* quotes.map(quote => quote.likes + 1)
Weights(order) == Tuple([i \in DOMAIN order |-> quotes[order[i]].likes + 1], Len(order))

\* currentWeight after the first n candidates
RECURSIVE CurrentWeight(_, _)
CurrentWeight(weights, n) ==
  IF n = 0 THEN 0 ELSE CurrentWeight(weights, n - 1) + weights[n]

\* weights.reduce((sum, weight) => sum + weight, 0)
TotalWeight(weights) == CurrentWeight(weights, Len(weights))

\* the loop of getWeightedRandom: the first candidate whose cumulative weight
\* is at least random = (k / RandomGrain) * totalWeight, else the last one
WeightedPick(order, k) ==
  LET weights == Weights(order)
      totalWeight == TotalWeight(weights)
      hits == { i \in DOMAIN order :
                  k * totalWeight <= CurrentWeight(weights, i) * RandomGrain }
  IN IF hits = {} THEN order[Len(order)]
     ELSE order[CHOOSE i \in hits : \A j \in hits : i <= j]

GetWeightedRandomBegin(r, excludeIds, minLikes) ==
  /\ req[r].pc \in {"idle", "done"}
  /\ req' = [req EXCEPT ![r] =
       [IdleReq EXCEPT !.op = "getWeightedRandom", !.pc = "findMany",
                       !.excludeIds = excludeIds, !.minLikes = minLikes]]
  /\ UNCHANGED <<quotes, redis, similarityRows>>

\* GetWeightedRandomFindMany without the shortcut for a single quote
GetWeightedRandomFindMany_AlwaysDraws(r) ==
  /\ req[r].op = "getWeightedRandom"
  /\ req[r].pc = "findMany"
  /\ \E ok \in BOOLEAN :
       IF ~ok THEN req' = Fail(r, DATABASE_ERROR)
       ELSE \E order \in OrdersByLikesDesc(Where(req[r].minLikes, req[r].excludeIds)) :
              IF Len(order) = 0
              THEN req' = [req EXCEPT ![r].pc = "done", ![r].result = Nil]
              ELSE \E k \in Draws :
                     req' = [req EXCEPT ![r].pc = "done", ![r].pool = order,
                                        ![r].random = k,
                                        ![r].result = quotes[WeightedPick(order, k)]]
  /\ UNCHANGED <<quotes, redis, similarityRows>>

\* the findMany query resolves; the rest of getWeightedRandom runs without
\* another await
GetWeightedRandomFindMany(r) ==
  /\ req[r].op = "getWeightedRandom"
  /\ req[r].pc = "findMany"
  /\ \E ok \in BOOLEAN :
       IF ~ok THEN req' = Fail(r, DATABASE_ERROR)
       ELSE \E order \in OrdersByLikesDesc(Where(req[r].minLikes, req[r].excludeIds)) :
              IF Len(order) = 0
              THEN req' = [req EXCEPT ![r].pc = "done", ![r].result = Nil]
              ELSE IF Len(order) = 1
              THEN req' = [req EXCEPT ![r].pc = "done", ![r].pool = order,
                                      ![r].result = quotes[order[1]]]
              ELSE \E k \in Draws :
                     req' = [req EXCEPT ![r].pc = "done", ![r].pool = order,
                                        ![r].random = k,
                                        ![r].result = quotes[WeightedPick(order, k)]]
  /\ UNCHANGED <<quotes, redis, similarityRows>>

GetRandomBegin(r, excludeIds) ==
  /\ req[r].pc \in {"idle", "done"}
  /\ req' = [req EXCEPT ![r] =
       [IdleReq EXCEPT !.op = "getRandom", !.pc = "count", !.excludeIds = excludeIds]]
  /\ UNCHANGED <<quotes, redis, similarityRows>>

\* the count query resolves; randomOffset = Math.floor(Math.random() * count)
GetRandomCount(r) ==
  /\ req[r].op = "getRandom"
  /\ req[r].pc = "count"
  /\ \E ok \in BOOLEAN :
       IF ~ok THEN req' = Fail(r, DATABASE_ERROR)
       ELSE LET count == Cardinality(Where(0, req[r].excludeIds))
            IN IF count = 0
               THEN req' = [req EXCEPT ![r].pc = "done", ![r].result = Nil]
               ELSE \E k \in Draws :
                      req' = [req EXCEPT ![r].pc = "findFirst", ![r].random = k,
                                         ![r].offset = (k * count) \div RandomGrain]
  /\ UNCHANGED <<quotes, redis, similarityRows>>

\* the findFirst query resolves: the row behind randomOffset rows of the
\* filtered table, which the query does not order
GetRandomFindFirst(r) ==
  /\ req[r].op = "getRandom"
  /\ req[r].pc = "findFirst"
  /\ \E ok \in BOOLEAN :
       IF ~ok THEN req' = Fail(r, DATABASE_ERROR)
       ELSE \E order \in Orders(Where(0, req[r].excludeIds)) :
              req' = [req EXCEPT ![r].pc = "done", ![r].pool = order,
                                 ![r].result = IF req[r].offset < Len(order)
                                               THEN quotes[order[req[r].offset + 1]]
                                               ELSE Nil]
  /\ UNCHANGED <<quotes, redis, similarityRows>>

\* QuoteService.cacheExternalQuote stores a quote fetched from an external API
CreateQuote ==
  /\ Q5 \notin DOMAIN quotes
  /\ quotes' = quotes @@ (Q5 :> createWith(Q5, [text |-> ScoreTextSeq[1],
                                                author |-> ScoreAuthorSeq[1],
                                                tags |-> Undefined]))
  /\ UNCHANGED <<redis, similarityRows, req>>

\* the table after some likes: Q3 was liked once and Q4 twice
InitSelect ==
  /\ quotes = [id \in StoredIds |->
                 [create(id) EXCEPT !.likes = IF id = Q3 THEN 1
                                              ELSE IF id = Q4 THEN 2 ELSE 0]]
  /\ redis = [k \in Keys |-> Nil]
  /\ similarityRows = {}
  /\ req = [r \in Requests |-> IdleReq]

\* one caller selects while another likes Q1 and external quotes are stored
NextSelect ==
  \/ \E excludeIds \in ExcludeSets, minLikes \in MinLikesAsked :
       GetWeightedRandomBegin("client", excludeIds, minLikes)
  \/ GetWeightedRandomFindMany("client")
  \/ \E excludeIds \in ExcludeSets : GetRandomBegin("client", excludeIds)
  \/ GetRandomCount("client")
  \/ GetRandomFindFirst("client")
  \/ LikeBegin("peer", Q1)
  \/ LikeExists("peer")
  \/ LikeIncrement("peer")
  \/ LikeInvalidateQuoteKey("peer")
  \/ LikeInvalidateSimilarKey("peer")
  \/ LikeInvalidateRandom("peer")
  \/ CreateQuote

SpecSelect == InitSelect /\ [][NextSelect]_vars

\* the exposed operations together: two callers, each of which asks for the
\* quotes similar to Q1, likes Q1 or asks for a weighted random quote
\* (QuoteService.getWeightedRandomQuote passes excludeIds and no minLikes)
NextAll ==
  \/ \E r \in Requests, limit \in 1..MaxAskLimit : GetSimilarBegin(r, Q1, limit)
  \/ \E r \in Requests : GetSimilarFindById(r)
  \/ \E r \in Requests : GetSimilarCacheGet(r)
  \/ \E r \in Requests : GetSimilarFindAll(r)
  \/ \E r \in Requests : GetSimilarCacheSet(r)
  \/ \E r \in Requests : LikeBegin(r, Q1)
  \/ \E r \in Requests : LikeExists(r)
  \/ \E r \in Requests : LikeIncrement(r)
  \/ \E r \in Requests : LikeInvalidateQuoteKey(r)
  \/ \E r \in Requests : LikeInvalidateSimilarKey(r)
  \/ \E r \in Requests : LikeInvalidateRandom(r)
  \/ \E r \in Requests : GetWeightedRandomBegin(r, {Q3, Q4}, 0)
  \/ \E r \in Requests : GetWeightedRandomFindMany(r)

SpecAll == Init /\ [][NextAll]_vars

-----------------------------------------------------------------------------
(* The ranking against a table whose quotes have been liked *)

\* Q1 and Q2 hold the same content and any number of likes
InitLikes ==
  /\ \E d \in ScoreData, likes1, likes2 \in 0..MaxLikes :
       quotes = [id \in StoredIds |->
                   IF id = Q1 THEN [createWith(Q1, d) EXCEPT !.likes = likes1]
                   ELSE IF id = Q2 THEN [createWith(Q2, d) EXCEPT !.likes = likes2]
                   ELSE create(id)]
  /\ redis = [k \in Keys |-> Nil]
  /\ similarityRows = {}
  /\ req = [r \in Requests |-> IdleReq]

NextLikes ==
  \E id \in {Q3, Q4}, limit \in 1..MaxAskLimit : Rank("client", id, limit)

SpecLikes == InitLikes /\ [][NextLikes]_vars

-----------------------------------------------------------------------------
(* The ranking of two candidates that differ in their author only *)

\* author names as given to QuoteRepository.create, which stores them as they are
AuthorNames ==
  {<<"L","a","o">>, <<"l","a","o">>, <<"L","a","o"," ">>, <<"L","e","o">>,
   <<"L","a","o"," ","T","z","u">>}

\* Q1, Q2 and Q3 hold the same text and tags and any of the author names
InitAuthor ==
  /\ \E author1, author2, author3 \in AuthorNames :
       quotes = [id \in StoredIds |->
                   IF id = Q4 THEN create(Q4)
                   ELSE createWith(id, [text |-> ScoreTextSeq[1],
                                        author |-> IF id = Q1 THEN author1
                                                   ELSE IF id = Q2 THEN author2
                                                   ELSE author3,
                                        tags |-> <<TagLife>>])]
  /\ redis = [k \in Keys |-> Nil]
  /\ similarityRows = {}
  /\ req = [r \in Requests |-> IdleReq]

NextAuthor ==
  \E limit \in 1..MaxAskLimit : Rank("client", Q1, limit)

SpecAuthor == InitAuthor /\ [][NextAuthor]_vars

\* one caller asking for the quotes similar to Q1 and liking Q2, one call
\* after the other
NextLikeOther ==
  \/ \E limit \in 1..MaxAskLimit : GetSimilarBegin("client", Q1, limit)
  \/ GetSimilarFindById("client")
  \/ GetSimilarCacheGet("client")
  \/ GetSimilarFindAll("client")
  \/ GetSimilarCacheSet("client")
  \/ LikeBegin("client", Q2)
  \/ LikeExists("client")
  \/ LikeIncrement("client")
  \/ LikeInvalidateQuoteKey("client")
  \/ LikeInvalidateSimilarKey("client")
  \/ LikeInvalidateRandom("client")

SpecLikeOther == Init /\ [][NextLikeOther]_vars

TypeOK ==
  /\ \A id \in StoredIds : quotes[id].likes \in 0..MaxLikes
  /\ \A r \in Requests : req[r].pc \in {"idle", "done", "findById", "cacheGet", "findAll",
                                        "cacheSet", "exists", "increment",
                                        "invalidateQuote", "invalidateSimilar",
                                        "invalidateRandom", "findMany", "count",
                                        "findFirst"}

-----------------------------------------------------------------------------
(* Properties *)

\* the call in slot r takes a step
Steps(r, op) ==
  /\ req[r].op = op
  /\ req[r].pc \notin {"idle", "done"}
  /\ req'[r] # req[r]

\* the call in slot r returns to its caller without an error
Completes(r, op) ==
  /\ Steps(r, op)
  /\ req'[r].pc = "done"
  /\ req'[r].err = NoError

\* the quote a call is about
IdOf(r) == trim(req[r].id)

Cached(id) == redis[SimilarKey(id)] # Nil

\* the cached list of id, empty when there is none
EntryOf(id) == IF Cached(id) THEN redis[SimilarKey(id)].value ELSE <<>>

RowsOf(rows, id) == { row \in rows : row.quoteId = id }

C3_LikeKeepsOtherEntries ==
  [][\A r \in Requests :
       Steps(r, "like") =>
         /\ \A y \in CacheIds \ {IdOf(r)} :
              redis'[SimilarKey(y)] = redis[SimilarKey(y)]
         /\ \A y \in StoredIds \ {IdOf(r)} :
              RowsOf(similarityRows', y) = RowsOf(similarityRows, y)]_vars

\* C3 witness: a like of Q1 has removed similar:Q1 while Redis and
\* quote_similarities hold a list of Q2 that names Q1
C3_Witness ==
  \E r \in Requests :
    /\ req[r].op = "like" /\ req[r].pc = "done" /\ req[r].err = NoError
    /\ SimilarKey(Q1) \in req[r].removed
    /\ \E i \in DOMAIN EntryOf(Q2) : EntryOf(Q2)[i].quote.id = Q1
    /\ \E row \in RowsOf(similarityRows, Q2) : row.similarQuoteId = Q1

\* the ids and scores of a ranked list
Ranking(list) ==
  Tuple([i \in DOMAIN list |-> <<list[i].quote.id, list[i].score>>], Len(list))

\* the ranking of all qualifying candidates of the stored quote id
FullRanking(id) == findSimilarQuotes(quotes[id], findAll, Len(StoredOrder))

\* C4: every list getSimilarQuotes(X, limit) returns, computed or read from
\* Redis, is the first limit entries of the full ranking of X, whatever the
\* limit of the call that stored the entry was.
C4_ReturnsPrefixOfFullRanking ==
  \A r \in Requests :
    (req[r].op = "getSimilar" /\ req[r].pc = "done" /\ req[r].err = NoError) =>
      Ranking(req[r].result) = Ranking(slice(FullRanking(IdOf(r)), req[r].limit))

\* C5: no Redis step of a call sets an error or changes a quote; a
\* getSimilarQuotes that met a Redis failure returns the ranking computed
\* from the pool, and a likeQuote that met one returns the quote with its
\* likes one above the likes stored when it began.
C5_CacheFailuresAbsorbed ==
  [][\A r \in Requests :
       /\ (Steps(r, "getSimilar") /\ req[r].pc \in {"cacheGet", "cacheSet"}) =>
            req'[r].err = NoError /\ quotes' = quotes
       /\ (Steps(r, "like") /\ req[r].pc \in {"invalidateQuote", "invalidateSimilar",
                                             "invalidateRandom"}) =>
            req'[r].err = NoError /\ quotes' = quotes
       /\ (Completes(r, "getSimilar") /\ req'[r].cacheErr) =>
            /\ req'[r].via = "computed"
            /\ req'[r].result =
                 findSimilarQuotes(quotes'[IdOf(r)], findAll', req[r].limit)
       /\ (Completes(r, "like") /\ req'[r].cacheErr) =>
            /\ req'[r].result.likes = req[r].before + 1
            /\ quotes'[IdOf(r)].likes = req[r].before + 1]_vars

\* C5 witness: a ranking of two entries was returned by a call whose Redis
\* commands failed, so that Redis holds no entry of the target
C5_Witness ==
  \E r \in Requests :
    /\ req[r].op = "getSimilar" /\ req[r].pc = "done" /\ req[r].err = NoError
    /\ req[r].cacheErr
    /\ Len(req[r].result) = 2
    /\ ~Cached(IdOf(r))

\* C6 (as stated): getSimilarQuotes returns no error other than a validation
\* or a not-found error; a call that has found its target and read Redis, and
\* so has only the pool fetch left to fail, returns no error at all.
C6_OnlyContractErrors ==
  \A r \in Requests :
    (req[r].op = "getSimilar" /\ req[r].pc = "done" /\ req[r].cacheOps > 0) =>
      req[r].err = NoError

\* C6 (amended): the pool fetch of getSimilarQuotes either succeeds, and the
\* scorer runs over the fetched pool, or fails, and the call returns
\* DATABASE_ERROR with no result and without writing Redis; DATABASE_ERROR
\* comes from the target lookup or the pool fetch only.
C6_PoolFailureSurfaces ==
  [][\A r \in Requests :
       Steps(r, "getSimilar") =>
         /\ req[r].pc = "findAll" =>
              \/ /\ req'[r].pc = "done"
                 /\ req'[r].err = DATABASE_ERROR
                 /\ req'[r].via = "none"
                 /\ req'[r].result = <<>>
                 /\ redis' = redis
              \/ /\ req'[r].pc = "cacheSet"
                 /\ req'[r].err = NoError
                 /\ req'[r].sims =
                      findSimilarQuotes(quotes[IdOf(r)], findAll, req[r].limit)
         /\ req'[r].err = DATABASE_ERROR => req[r].pc \in {"findById", "findAll"}
         /\ req'[r].err \in {NoError, QUOTE_NOT_FOUND, DATABASE_ERROR}]_vars

\* C6 witness: a call returned DATABASE_ERROR after it had read Redis, that
\* is, from its pool fetch
C6_Witness ==
  \E r \in Requests :
    /\ req[r].op = "getSimilar" /\ req[r].pc = "done"
    /\ req[r].err = DATABASE_ERROR
    /\ req[r].cacheOps = 1

\* C7: a getSimilarQuotes call with a limit outside 1..50 returns
\* VALIDATION_ERROR, and one with a valid limit and a well-formed id that
\* names no stored quote returns QUOTE_NOT_FOUND (DATABASE_ERROR when the
\* lookup itself fails); either way it returns no result and has issued no
\* Redis command.
C7_InvalidCallsTouchNothing ==
  \A r \in Requests :
    (req[r].op = "getSimilar" /\ req[r].pc = "done") =>
      /\ (req[r].limit < 1 \/ req[r].limit > 50) =>
           /\ req[r].err = VALIDATION_ERROR
           /\ req[r].via = "none" /\ req[r].result = <<>> /\ req[r].cacheOps = 0
      /\ (req[r].limit \in 1..50 /\ Len(IdOf(r)) > 0 /\ IdOf(r) \notin StoredIds) =>
           /\ req[r].err \in {QUOTE_NOT_FOUND, DATABASE_ERROR}
           /\ req[r].via = "none" /\ req[r].result = <<>> /\ req[r].cacheOps = 0

\* C7 witness: a call for an id that names no quote has returned
\* QUOTE_NOT_FOUND while Redis holds entries of other quotes
C7_Witness ==
  \E r \in Requests :
    /\ req[r].op = "getSimilar" /\ req[r].pc = "done"
    /\ req[r].id = UnknownId /\ req[r].limit \in 1..50
    /\ req[r].err = QUOTE_NOT_FOUND
    /\ Cached(Q1)

\* C8: a getSimilarQuotes call that returns a list returns the first limit
\* entries of the full ranking of its target, and two calls for the same
\* target that have both computed a list are about to write the same
\* ranking to Redis.
C8_RaceHarmless ==
  /\ \A r \in Requests :
       (req[r].op = "getSimilar" /\ req[r].pc = "done" /\ req[r].err = NoError) =>
         Ranking(req[r].result) = Ranking(slice(FullRanking(IdOf(r)), req[r].limit))
  /\ \A r1, r2 \in Requests :
       (/\ req[r1].op = "getSimilar" /\ req[r1].pc = "cacheSet"
        /\ req[r2].op = "getSimilar" /\ req[r2].pc = "cacheSet"
        /\ IdOf(r1) = IdOf(r2)) =>
         Ranking(req[r1].sims) = Ranking(req[r2].sims)

\* C9: no list that getSimilarQuotes computes, returns or writes to Redis
\* for a target names the target itself.
C9_TargetNeverListed ==
  /\ \A r \in Requests :
       req[r].op = "getSimilar" =>
         /\ \A i \in DOMAIN req[r].sims : req[r].sims[i].quote.id # IdOf(r)
         /\ \A i \in DOMAIN req[r].result : req[r].result[i].quote.id # IdOf(r)
  /\ \A id \in StoredIds :
       \A i \in DOMAIN EntryOf(id) : EntryOf(id)[i].quote.id # id

\* C9 witness: a list of two candidates was returned from Redis
C9_Witness ==
  \E r \in Requests :
    /\ req[r].op = "getSimilar" /\ req[r].pc = "done" /\ req[r].via = "cache"
    /\ Len(req[r].result) = 2
    /\ EntryOf(IdOf(r)) = req[r].result

\* C10: every score in every ranked result lies in [0, 1].
C10_ScoresInUnitInterval ==
  \A r \in Requests :
    \A i \in DOMAIN req[r].result :
      /\ RLeq(RZero, req[r].result[i].score)
      /\ RLeq(req[r].result[i].score, ROne)

\* the call in slot r is a finished rank call
Ranked(r) == req[r].op = "rank" /\ req[r].pc = "done"

\* the score of the stored quote c against the target of the call in slot r
ScoreOf(r, c) == OverallSimilarity(quotes[req[r].id], quotes[c])

\* the pool candidates of the call in slot r that are not the target and
\* score at least the minimum
Qualifying(r) ==
  { c \in StoredIds \ {req[r].id} : RLeq(MINIMUM_SIMILARITY_SCORE, ScoreOf(r, c)) }

\* the candidate ids of a result list
ListedIds(list) == { list[i].quote.id : i \in DOMAIN list }

\* C11: rank returns at most limit entries, sorted by score in
\* non-increasing order, each a distinct qualifying candidate carrying its
\* score (>= 0.08), and the list is a prefix of the full qualifying ranking:
\* it is as long as the limit and the number of qualifying candidates allow,
\* and no qualifying candidate left out scores strictly higher than a
\* returned entry.
C11_RankedPrefix ==
  \A r \in Requests :
    Ranked(r) =>
      LET res == req[r].result
      IN /\ Len(res) = Min2(req[r].limit, Cardinality(Qualifying(r)))
         /\ Len(res) <= req[r].limit
         /\ \A i \in DOMAIN res :
              /\ res[i].quote.id \in Qualifying(r)
              /\ res[i].score = ScoreOf(r, res[i].quote.id)
              /\ RLeq(<<8, 100>>, res[i].score)
         /\ \A i, j \in DOMAIN res :
              i < j => /\ RLeq(res[j].score, res[i].score)
                       /\ res[i].quote.id # res[j].quote.id
         /\ \A c \in Qualifying(r) \ ListedIds(res) :
              \A i \in DOMAIN res : ~RLess(res[i].score, ScoreOf(r, c))

\* a rank call whose limit cut the ranking below a candidate that scores
\* less than a returned one, with another candidate under the minimum
C11_Witness ==
  \E r \in Requests :
    /\ Ranked(r)
    /\ Len(req[r].result) = req[r].limit
    /\ \E c \in Qualifying(r) \ ListedIds(req[r].result) :
         \E i \in DOMAIN req[r].result : RLess(ScoreOf(r, c), req[r].result[i].score)
    /\ \E c \in StoredIds \ {req[r].id} : c \notin Qualifying(r)

\* the position of the stored quote c in the pool handed to rank
PoolPos(c) == CHOOSE k \in DOMAIN findAll : findAll[k].id = c

\* C12: returned candidates with equal scores keep the relative order they
\* have in the pool, and a candidate left out by the limit that scores the
\* same as a returned one stands later in the pool than it.
C12_TiesKeepPoolOrder ==
  \A r \in Requests :
    Ranked(r) =>
      LET res == req[r].result
      IN /\ \A i, j \in DOMAIN res :
              (i < j /\ res[i].score = res[j].score) =>
                PoolPos(res[i].quote.id) < PoolPos(res[j].quote.id)
         /\ \A c \in Qualifying(r) \ ListedIds(res) :
              \A i \in DOMAIN res :
                res[i].score = ScoreOf(r, c) => PoolPos(res[i].quote.id) < PoolPos(c)

\* a rank call whose limit cut through two candidates with the same score
C12_Witness ==
  \E r \in Requests :
    /\ Ranked(r)
    /\ \E c \in Qualifying(r) \ ListedIds(req[r].result) :
         \E i \in DOMAIN req[r].result : req[r].result[i].score = ScoreOf(r, c)

\* |A \cap B| / |A \cup B| of two finite sets, 0 when both are empty
Jaccard(A, B) ==
  IF A \cup B = {} THEN RZero
  ELSE RNorm(Cardinality(A \cap B), Cardinality(A \cup B))

\* what the author contributes to the semantic sum
AuthorPart(author1, author2) ==
  IF toLowerCase(author1) = toLowerCase(author2) THEN <<45, 100>>
  ELSE IF RLess(<<7, 10>>, calculateAuthorSimilarity(author1, author2))
  THEN RMul(<<5, 10>>, calculateAuthorSimilarity(author1, author2))
  ELSE RZero

\* the shorter text length over the longer one
LengthRatio(text1, text2) ==
  IF Len(text1) = 0 /\ Len(text2) = 0 THEN ROne
  ELSE RNorm(Min2(Len(text1), Len(text2)), Max2(Len(text1), Len(text2)))

\* 0.4 x keywordSim + 0.6 x (authorPart + 0.3 x tagSim + 0.2 x lengthRatio) / 1.0
Blend(quote1, quote2) ==
  RAdd(RMul(<<4, 10>>, Jaccard(Range(extractKeywords(quote1.text)),
                               Range(extractKeywords(quote2.text)))),
       RMul(<<6, 10>>,
            RAdd(RAdd(AuthorPart(quote1.author, quote2.author),
                      RMul(<<3, 10>>, calculateTagSimilarity(TagsOrEmpty(quote1.tags),
                                                             TagsOrEmpty(quote2.tags)))),
                 RMul(<<2, 10>>, LengthRatio(quote1.text, quote2.text)))))

\* C14: the score rank gives a candidate is 0.4 x keywordSim + 0.6 x
\* semanticSim, with keywordSim the Jaccard coefficient of the keyword sets
\* and semanticSim = authorPart + 0.3 x tagSim + 0.2 x lengthRatio over a
\* total weight of 1.0, authorPart being 0.45, 0.5 x authorSimilarity or 0.
C14_ScoreIsBlend ==
  \A r \in Requests :
    Ranked(r) =>
      /\ \A c \in StoredIds \ {req[r].id} :
           ScoreOf(r, c) = Blend(quotes[req[r].id], quotes[c])
      /\ \A i \in DOMAIN req[r].result :
           req[r].result[i].score = Blend(quotes[req[r].id], req[r].result[i].quote)

\* a rank call that returned a candidate whose author contributes nothing
C14_Witness ==
  \E r \in Requests :
    /\ Ranked(r)
    /\ \E i \in DOMAIN req[r].result :
         AuthorPart(quotes[req[r].id].author, req[r].result[i].quote.author) = RZero

\* the two quotes share no keyword, their authors contribute nothing and
\* neither has a tag
Unrelated(quote1, quote2) ==
  /\ Range(extractKeywords(quote1.text)) \cap Range(extractKeywords(quote2.text)) = {}
  /\ AuthorPart(quote1.author, quote2.author) = RZero
  /\ Len(TagsOrEmpty(quote1.tags)) = 0
  /\ Len(TagsOrEmpty(quote2.tags)) = 0

\* C15: a candidate that shares no keyword with the target, has a dissimilar
\* author and, like the target, no tags scores below 0.08 and is not in the
\* ranked result.
C15_UnrelatedExcluded ==
  \A r \in Requests :
    Ranked(r) =>
      \A c \in StoredIds \ {req[r].id} :
        Unrelated(quotes[req[r].id], quotes[c]) =>
          /\ RLess(ScoreOf(r, c), <<8, 100>>)
          /\ c \notin ListedIds(req[r].result)

\* C15 amended: such a candidate scores 0.09 + 0.12 x lengthRatio (the
\* neutral tag sub-score 0.5 and the length ratio still count), which is
\* above 0.08, so it qualifies and is returned unless the limit cuts it.
C15_UnrelatedQualifies ==
  \A r \in Requests :
    Ranked(r) =>
      \A c \in StoredIds \ {req[r].id} :
        Unrelated(quotes[req[r].id], quotes[c]) =>
          /\ ScoreOf(r, c) = RAdd(<<9, 100>>,
                                  RMul(<<12, 100>>,
                                       LengthRatio(quotes[req[r].id].text, quotes[c].text)))
          /\ RLess(<<8, 100>>, ScoreOf(r, c))
          /\ c \in Qualifying(r)
          /\ (Len(req[r].result) < req[r].limit => c \in ListedIds(req[r].result))

\* a rank call that returned a candidate unrelated to the target
C15_Witness ==
  \E r \in Requests :
    /\ Ranked(r)
    /\ \E i \in DOMAIN req[r].result :
         Unrelated(quotes[req[r].id], req[r].result[i].quote)

\* the set of lowercase tags of a stored tags value
TagSet(tags) == { toLowerCase(TagsOrEmpty(tags)[i]) : i \in DOMAIN TagsOrEmpty(tags) }

\* the tag sub-score calculateSemanticSimilarity uses for two quotes
TagSubScore(quote1, quote2) ==
  calculateTagSimilarity(TagsOrEmpty(quote1.tags), TagsOrEmpty(quote2.tags))

\* C16: the tag sub-score of the target and a candidate is 0.5 when both
\* have no tags, 0 when exactly one has none, and otherwise the Jaccard
\* coefficient of their lowercase tag sets.
C16_TagScoreIsJaccard ==
  \A r \in Requests :
    Ranked(r) =>
      \A c \in StoredIds \ {req[r].id} :
        TagSubScore(quotes[req[r].id], quotes[c]) =
          IF TagSet(quotes[req[r].id].tags) = {} /\ TagSet(quotes[c].tags) = {}
          THEN <<5, 10>>
          ELSE IF TagSet(quotes[req[r].id].tags) = {} \/ TagSet(quotes[c].tags) = {}
          THEN RZero
          ELSE Jaccard(TagSet(quotes[req[r].id].tags), TagSet(quotes[c].tags))

\* C17: the score is symmetric: the score rank gives a candidate against
\* the target equals the score of the target against that candidate.
C17_ScoreSymmetric ==
  \A r \in Requests :
    Ranked(r) =>
      \A c \in StoredIds \ {req[r].id} :
        ScoreOf(r, c) = OverallSimilarity(quotes[c], quotes[req[r].id])

\* the selection in slot r returns to its caller without an error
Selects(r) == Completes(r, "getWeightedRandom") \/ Completes(r, "getRandom")

\* C18: a selection returns none exactly when no stored quote has at least
\* minLikes likes and an id outside excludeIds; otherwise it returns a stored
\* quote with at least minLikes likes and an id outside excludeIds, also
\* while another caller likes a quote and new quotes are stored.
C18_SelectsFromFilteredPool ==
  [][\A r \in Requests :
       Selects(r) =>
         LET filtered == { id \in DOMAIN quotes :
                             /\ quotes[id].likes >= req[r].minLikes
                             /\ id \notin req[r].excludeIds }
         IN /\ (req'[r].result = Nil) <=> (filtered = {})
            /\ req'[r].result # Nil =>
                 /\ req'[r].result.id \in filtered
                 /\ req'[r].result = quotes[req'[r].result.id]]_vars

\* a weighted selection asking for at least one like returned Q1, which
\* another caller had liked in the meantime
C18_Witness ==
  \E r \in Requests :
    /\ req[r].op = "getWeightedRandom"
    /\ req[r].pc = "done"
    /\ req[r].err = NoError
    /\ req[r].minLikes = 1
    /\ req[r].excludeIds = {Q2, Q3, Q4}
    /\ req[r].result # Nil
    /\ req[r].result.id = Q1

\* the sum of likes + 1 over the first n candidates of a walk order
RECURSIVE CumulativeShare(_, _)
CumulativeShare(order, n) ==
  IF n = 0 THEN 0 ELSE CumulativeShare(order, n - 1) + quotes[order[n]].likes + 1

\* the draw k / RandomGrain of [0, 1), scaled to r in [0, W), falls in the
\* interval of candidate i: above the cumulative weight before it (if any)
\* and at most its own
InShare(order, i, k) ==
  /\ k * CumulativeShare(order, Len(order)) <= CumulativeShare(order, i) * RandomGrain
  /\ i > 1 =>
       CumulativeShare(order, i - 1) * RandomGrain < k * CumulativeShare(order, Len(order))

\* C19: with two or more candidates getWeightedRandom draws r in [0, W),
\* W the sum of likes + 1, and returns the first candidate of the walk whose
\* cumulative weight is at least r, i.e. candidate i exactly for the draws
\* in an interval of width likes_i + 1; and every candidate, also one with
\* 0 likes, is returned for some draw.
C19_WeightedByLikesPlusOne ==
  [][\A r \in Requests :
       /\ (Completes(r, "getWeightedRandom") /\ Len(req'[r].pool) >= 2) =>
            /\ req'[r].random \in Draws
            /\ req'[r].pool \in OrdersByLikesDesc({ id \in DOMAIN quotes :
                                                     /\ quotes[id].likes >= req[r].minLikes
                                                     /\ id \notin req[r].excludeIds })
            /\ \E i \in DOMAIN req'[r].pool :
                 /\ req'[r].result = quotes[req'[r].pool[i]]
                 /\ InShare(req'[r].pool, i, req'[r].random)
       /\ (Steps(r, "getWeightedRandom") /\ req[r].pc = "findMany") =>
            \A order \in OrdersByLikesDesc(Where(req[r].minLikes, req[r].excludeIds)) :
              Len(order) >= 2 =>
                \A i \in DOMAIN order :
                  \E k \in Draws : /\ WeightedPick(order, k) = order[i]
                                   /\ InShare(order, i, k)]_vars

\* a weighted selection over several candidates returned one with 0 likes
\* that was not the first of the walk
C19_Witness ==
  \E r \in Requests :
    /\ req[r].op = "getWeightedRandom"
    /\ req[r].pc = "done"
    /\ req[r].err = NoError
    /\ Len(req[r].pool) >= 3
    /\ req[r].random > 0
    /\ req[r].result # Nil
    /\ req[r].result.likes = 0
    /\ req[r].result.id # req[r].pool[1]

\* C20: when exactly one stored quote passes the filter, getWeightedRandom
\* returns it and does not call Math.random.
C20_SingleCandidateNoDraw ==
  [][\A r \in Requests :
       Completes(r, "getWeightedRandom") =>
         LET filtered == { id \in DOMAIN quotes :
                             /\ quotes[id].likes >= req[r].minLikes
                             /\ id \notin req[r].excludeIds }
         IN Cardinality(filtered) = 1 =>
              /\ \A id \in filtered : req'[r].result = quotes[id]
              /\ req'[r].random = NoDraw]_vars

\* a weighted selection that found one candidate and returned it
C20_Witness ==
  \E r \in Requests :
    /\ req[r].op = "getWeightedRandom"
    /\ req[r].pc = "done"
    /\ req[r].err = NoError
    /\ Len(req[r].pool) = 1
    /\ req[r].result # Nil
    /\ req[r].result.id = req[r].pool[1]
    /\ req[r].random = NoDraw

\* C21: in every step of getSimilar, getWeightedRandomQuote and likeQuote
\* calls each stored quote stays stored with the same text, author and tags
\* and with likes that are >= 0 and do not decrease; likes change only in
\* the increment of a likeQuote call for that quote, and that call then
\* returns without an error.
C21_QuotesImmutableButLikes ==
  [][/\ \A id \in DOMAIN quotes :
          /\ id \in DOMAIN quotes'
          /\ quotes'[id] = [quotes[id] EXCEPT !.likes = quotes'[id].likes]
          /\ quotes[id].likes >= 0
          /\ quotes'[id].likes >= quotes[id].likes
          /\ quotes'[id].likes # quotes[id].likes =>
               \E r \in Requests : /\ Steps(r, "like")
                                   /\ req[r].pc = "increment"
                                   /\ IdOf(r) = id
                                   /\ req'[r].err = NoError
     /\ \A r \in Requests :
          (Steps(r, "like") /\ req[r].pc \in {"invalidateQuote", "invalidateSimilar",
                                              "invalidateRandom"}) =>
            req'[r].err = NoError]_vars

\* Q1 has been liked while the other caller got a weighted random quote
C21_Witness ==
  /\ quotes[Q1].likes > 0
  /\ \E r, q \in Requests :
       /\ req[r].op = "like" /\ req[r].pc = "done" /\ req[r].err = NoError
       /\ req[q].op = "getWeightedRandom" /\ req[q].pc = "done" /\ req[q].result # Nil

UnlikedPool ==
  Tuple([i \in DOMAIN StoredOrder |-> [quotes[StoredOrder[i]] EXCEPT !.likes = 0]],
        Len(StoredOrder))

\* what rank returns for the call in slot r when no quote has a like
UnlikedRanking(r) ==
  Ranking(findSimilarQuotes(quotes[req[r].id], UnlikedPool, req[r].limit))

\* C23: the candidate ids and scores that a fresh computation returns are
\* the same for every assignment of likes to the quotes.
C23_RankingIgnoresLikes ==
  \A r \in Requests :
    Ranked(r) => Ranking(req[r].result) = UnlikedRanking(r)

\* C23 amended: the scores that a fresh computation returns, position by
\* position, are the same for every assignment of likes, and every
\* returned candidate carries the score it has without likes; only which
\* of several candidates with the same score comes first, or is kept by
\* the limit, follows the likes (the pool is read in order of likes).
C23_ScoresIgnoreLikes ==
  \A r \in Requests :
    Ranked(r) =>
      /\ Len(req[r].result) = Len(UnlikedRanking(r))
      /\ \A i \in DOMAIN req[r].result :
           /\ req[r].result[i].score = UnlikedRanking(r)[i][2]
           /\ req[r].result[i].score =
                calculateOverallSimilarity(
                  [quotes[req[r].id] EXCEPT !.likes = 0],
                  [req[r].result[i].quote EXCEPT !.likes = 0])

\* a fresh ranking that lists the more liked of two candidates with the
\* same score where the ranking without likes lists the other
C23_Witness ==
  \E r \in Requests :
    /\ Ranked(r)
    /\ Ranking(req[r].result) # UnlikedRanking(r)
    /\ \E i \in DOMAIN req[r].result : req[r].result[i].quote.likes > 0

\* C24: of two candidates with the same text and tags, one whose author
\* equals the target's author up to letter case scores at least as high as
\* one whose author is a different string.
C24_SameAuthorScoresHighest ==
  \A r \in Requests :
    Ranked(r) =>
      \A c1, c2 \in StoredIds \ {req[r].id} :
        (/\ quotes[c1].text = quotes[c2].text
         /\ SameTags(quotes[c1].tags, quotes[c2].tags)
         /\ toLowerCase(quotes[c1].author) = toLowerCase(quotes[req[r].id].author)
         /\ quotes[c2].author # quotes[req[r].id].author) =>
          RLeq(ScoreOf(r, c2), ScoreOf(r, c1))

\* a getSimilar call that computed its result and met no cache failure
\* leaves exactly that result in Redis under its target's key
ComputedResultStored(r) ==
  (Completes(r, "getSimilar") /\ req'[r].via = "computed" /\ ~req'[r].cacheErr) =>
    /\ redis'[SimilarKey(IdOf(r))] # Nil
    /\ redis'[SimilarKey(IdOf(r))].value = req'[r].result

\* the call in slot r reads the entry of its target, and the read succeeds
ReadsEntry(r) ==
  /\ Steps(r, "getSimilar")
  /\ req[r].pc = "cacheGet"
  /\ Cached(IdOf(r))
  /\ ~req'[r].cacheErr

\* the call in slot r returns the stored list, cut to its limit, without
\* fetching the pool
ServedFromCache(r) ==
  /\ req'[r].pc = "done"
  /\ req'[r].err = NoError
  /\ req'[r].via = "cache"
  /\ req'[r].result = slice(EntryOf(IdOf(r)), req[r].limit)

\* C25: a computed result is left in the cache, and a getSimilar that finds
\* the entry of its target (no like or expiry removed it, and the read does
\* not fail) is answered from it without fetching the pool or scoring,
\* also when the stored list is empty.
C25_RepeatServedFromCache ==
  [][\A r \in Requests :
       /\ ComputedResultStored(r)
       /\ ReadsEntry(r) => ServedFromCache(r)]_vars

\* C25 amended: a computed result is left in the cache; a getSimilar that
\* finds the entry of its target is answered from it without fetching the
\* pool when the stored list is not empty, and goes on to fetch the pool
\* and recompute when the stored list is empty.
C25_RepeatServedUnlessEmpty ==
  [][\A r \in Requests :
       /\ ComputedResultStored(r)
       /\ ReadsEntry(r) =>
            IF Len(EntryOf(IdOf(r))) > 0
            THEN ServedFromCache(r)
            ELSE /\ req'[r].pc = "findAll"
                 /\ req'[r].via # "cache"]_vars

\* a getSimilar call is about to fetch the pool although the empty list
\* computed before is in the cache and its read did not fail
C25_Witness ==
  \E r \in Requests :
    /\ req[r].op = "getSimilar"
    /\ req[r].pc = "findAll"
    /\ ~req[r].cacheErr
    /\ Cached(IdOf(r))
    /\ Len(EntryOf(IdOf(r))) = 0

CommitsLike(r) ==
  /\ Steps(r, "like")
  /\ req[r].pc = "increment"
  /\ req'[r].pc = "invalidateQuote"

\* C27: no like is lost. Every step changes the stored likes of a quote
\* only as the committing step of a like call for that quote, which raises
\* them by exactly one and commits one call only; a like call that returns
\* a quote has committed, and the likes it returns are at least one above
\* the likes stored when it began. This holds with two callers whose likes,
\* getSimilar and getWeightedRandom calls interleave step by step.
C27_NoLikeLost ==
  [][ /\ \A id \in DOMAIN quotes :
           quotes'[id].likes # quotes[id].likes
             => /\ quotes'[id].likes = quotes[id].likes + 1
                /\ Cardinality({ r \in Requests : CommitsLike(r) /\ IdOf(r) = id }) = 1
      /\ \A r \in Requests :
           /\ CommitsLike(r)
                => /\ quotes'[IdOf(r)].likes = quotes[IdOf(r)].likes + 1
                   /\ req'[r].target = quotes'[IdOf(r)]
                   /\ req'[r].target.likes >= req[r].before + 1
           /\ (Completes(r, "like") /\ req'[r].err = NoError)
                => /\ req[r].pc = "invalidateRandom"
                   /\ req'[r].result = req[r].target
                   /\ req'[r].result.likes >= req[r].before + 1
           /\ (Steps(r, "like") /\ req[r].pc \in {"invalidateQuote", "invalidateSimilar",
                                                     "invalidateRandom"})
                => /\ req[r].target # Nil
                   /\ req[r].target.likes >= req[r].before + 1
                   /\ req'[r].pc # "done" => req'[r].target = req[r].target ]_vars

\* two likes of Q1 that overlapped have both returned: Q1 holds two likes,
\* and one call began at zero likes and returned two
C27_Witness ==
  /\ \A r \in Requests : /\ req[r].op = "like"
                           /\ req[r].pc = "done"
                           /\ req[r].err = NoError
                           /\ req[r].before = 0
  /\ quotes[Q1].likes = 2
  /\ \E r \in Requests : req[r].result.likes = 2
  /\ \E r \in Requests : req[r].result.likes = 1

\* the likes of the quote a getSimilar call is about, as its pool fetch
\* returned them
PoolLikes(r) ==
  LET i == CHOOSE i \in DOMAIN req[r].allQuotes : req[r].allQuotes[i].id = IdOf(r)
  IN  req[r].allQuotes[i].likes

\* the like calls for id that have committed their increment and not returned
CommittedInFlight(id) ==
  { l \in Requests : /\ req[l].op = "like"
                      /\ req[l].pc \in {"invalidateQuote", "invalidateSimilar",
                                         "invalidateRandom"}
                      /\ trim(req[l].id) = id }

\* the getSimilar call in slot r puts its computed list into the cache
Installs(r) ==
  /\ Steps(r, "getSimilar")
  /\ req[r].pc = "cacheSet"
  /\ redis'[SimilarKey(IdOf(r))] # Nil
  /\ redis'[SimilarKey(IdOf(r))] # redis[SimilarKey(IdOf(r))]

\* C28: once a like of X has returned, an entry for X is computed from a
\* pool fetched after that like's increment: whenever a getSimilar call
\* puts its list into the cache, the pool it fetched shows X with the
\* likes of every like call that has returned (the stored likes less the
\* increments of the like calls still in flight).
C28_NoStaleReinstall ==
  [][ \A r \in Requests :
        Installs(r)
          => PoolLikes(r) >= quotes[IdOf(r)].likes
                               - Cardinality(CommittedInFlight(IdOf(r))) ]_vars

\* a step of the like call in slot r, its first one included
LikeStep(r) ==
  /\ req'[r].op = "like"
  /\ req'[r] # req[r]
  /\ req[r].op = "like" \/ req[r].pc \in {"idle", "done"}

\* the like call in slot r returns an error to its caller
LikeFails(r) ==
  /\ LikeStep(r)
  /\ req'[r].pc = "done"
  /\ req'[r].err # NoError

\* C29: a likeQuote that fails returns a validation error (empty or blank
\* id), a not-found error (no stored quote has the id) or a database error
\* (the existence check or the increment failed), and no step of the call
\* has changed the likes of a quote or a cache entry or issued a Redis
\* command; a like call issues Redis commands only after its increment is
\* committed, and from then on it cannot fail.
C29_FailedLikeChangesNothing ==
  [][ \A r \in Requests :
        /\ LikeFails(r)
             => /\ req'[r].err \in {VALIDATION_ERROR, QUOTE_NOT_FOUND, DATABASE_ERROR}
                /\ req'[r].err = VALIDATION_ERROR <=> InvalidId(req'[r].id)
                /\ req'[r].err = QUOTE_NOT_FOUND
                     => trim(req'[r].id) \notin DOMAIN quotes
                /\ req[r].pc \in {"idle", "done", "exists", "increment"}
                /\ req'[r].cacheOps = 0
                /\ req'[r].removed = {}
                /\ quotes' = quotes
                /\ redis' = redis
        /\ (LikeStep(r) /\ req'[r].pc \in {"exists", "increment"})
             => /\ req'[r].cacheOps = 0
                /\ quotes' = quotes
                /\ redis' = redis
        /\ (LikeStep(r) /\ (redis' # redis \/ req'[r].cacheOps > 0))
             => /\ req[r].pc \in {"invalidateQuote", "invalidateSimilar",
                                    "invalidateRandom"}
                /\ req[r].target = quotes[IdOf(r)]
                /\ quotes[IdOf(r)].likes >= req[r].before + 1
                /\ quotes' = quotes
                /\ req'[r].err = NoError ]_vars

\* a like of Q1 whose increment or existence check failed has returned a
\* database error; Q1's likes and its cached list are as they were
C29_Witness ==
  \E r \in Requests :
    /\ req[r].op = "like"
    /\ req[r].pc = "done"
    /\ req[r].err = DATABASE_ERROR
    /\ IdOf(r) = Q1
    /\ req[r].cacheOps = 0
    /\ quotes[Q1].likes = req[r].before
    /\ Cached(Q1)

\* C30: after a like of X has completed, a getSimilar response that lists X
\* reports X's stored likes, whether computed or served from the cache:
\* every quote listed in a response carries the likes the store holds for
\* it when the response is returned (one caller, so no like is in flight
\* while a getSimilar call runs).
C30_ListedLikesAreStored ==
  [][ \A r \in Requests :
        Completes(r, "getSimilar")
          => \A i \in DOMAIN req'[r].result :
               req'[r].result[i].quote.likes
                 = quotes[req'[r].result[i].quote.id].likes ]_vars

=============================================================================
